---- MODULE Spec2Model ----
(***************************************************************************)
(* Model of gpt_poker_server.py: the prompt builder build_gto_prompt and   *)
(* the POST /gto_tip handler gto_tip, which relays the prompt to a         *)
(* completion backend and cleans the returned text.                        *)
(*                                                                         *)
(* A Python string is a sequence of chunks.  Text that the code slices or  *)
(* searches (card tokens, the backend's text) is given one character per   *)
(* chunk; literal template text is one chunk per literal.                  *)
(***************************************************************************)
EXTENDS Integers, Sequences, FiniteSets, TLC

VARIABLES request, backend, pc, data, prompt, raw_output, tip, response, exc

vars == <<request, backend, pc, data, prompt, raw_output, tip, response, exc>>

(* ---------------- bounds of the explored inputs ---------------- *)
MaxCommunity == 5
MaxPieces == 3
MaxHandLen == 3

(* ---------------- JSON values ---------------- *)
Absent == [kind |-> "absent"]
Null == [kind |-> "null"]
JStr(s) == [kind |-> "string", chars |-> s]
JNum(n) == [kind |-> "number", n |-> n]
JArr(xs) == [kind |-> "array", items |-> xs]
None == [kind |-> "none"]

\* Python truthiness of a JSON value as used by `x or default` and `if x`
Truthy(v) ==
    CASE v.kind = "absent" -> FALSE
      [] v.kind = "null" -> FALSE
      [] v.kind = "array" -> v.items # <<>>
      [] v.kind = "string" -> v.chars # <<>>
      [] v.kind = "number" -> v.n # 0
      [] OTHER -> TRUE

\* dict.get(key, default): the default replaces an absent key only
Get(v, default) == IF v.kind = "absent" THEN default ELSE v

(* ---------------- string helpers ---------------- *)
RECURSIVE Join(_, _)
\* sep.join(strs)
Join(strs, sep) ==
    IF strs = <<>> THEN <<>>
    ELSE IF Len(strs) = 1 THEN strs[1]
    ELSE strs[1] \o sep \o Join(Tail(strs), sep)

DigitChar == <<"0", "1", "2", "3", "4", "5", "6", "7", "8", "9">>

RECURSIVE Digits(_)
\* str(n) of a natural number
Digits(n) ==
    IF n < 10 THEN <<DigitChar[n + 1]>>
    ELSE Digits(n \div 10) \o <<DigitChar[(n % 10) + 1]>>

\* f"{v}" of a JSON value
Format(v) ==
    CASE v.kind = "string" -> v.chars
      [] v.kind = "number" -> Digits(v.n)
      [] v.kind = "null" -> <<"None">>
      [] OTHER -> <<"?">>

\* s[:-1]
DropLast(s) == IF s = <<>> THEN <<>> ELSE SubSeq(s, 1, Len(s) - 1)

\* s[-1]; the caller checks s # <<>> (IndexError otherwise)
LastChar(s) == s[Len(s)]

unknown == <<"u", "n", "k", "n", "o", "w", "n">>

(* ---------------- build_gto_prompt ---------------- *)
\* hand = data.get("hand", []) or ["unknown", "unknown"]
HandOf(d) ==
    LET v == Get(d.hand, JArr(<<>>))
    IN  IF Truthy(v) THEN [i \in 1..Len(v.items) |-> v.items[i].chars]
        ELSE <<unknown, unknown>>

\* community = data.get("community", []) or []
CommunityOf(d) ==
    LET v == Get(d.community, JArr(<<>>))
    IN  IF Truthy(v) THEN [i \in 1..Len(v.items) |-> v.items[i].chars]
        ELSE <<>>

\* opponent_actions = data.get("opponent_actions", []) or []
OpponentActionsOf(d) ==
    LET v == Get(d.opponent_actions, JArr(<<>>))
    IN  IF Truthy(v) THEN [i \in 1..Len(v.items) |-> v.items[i].chars]
        ELSE <<>>

\* the guard of both analysis branches: len(hand) == 2 and hand[0] != "unknown"
HandKnown(hand) == Len(hand) = 2 /\ hand[1] # unknown

rank_values(r) ==
    CASE r = <<"2">> -> 2
      [] r = <<"3">> -> 3
      [] r = <<"4">> -> 4
      [] r = <<"5">> -> 5
      [] r = <<"6">> -> 6
      [] r = <<"7">> -> 7
      [] r = <<"8">> -> 8
      [] r = <<"9">> -> 9
      [] r = <<"1", "0">> -> 10
      [] r = <<"J">> -> 11
      [] r = <<"Q">> -> 12
      [] r = <<"K">> -> 13
      [] r = <<"A">> -> 14
      [] OTHER -> 0

Abs(x) == IF x < 0 THEN -x ELSE x
Max2(a, b) == IF a >= b THEN a ELSE b

\* variant: the rank taken as the first character only
CardRankFirstChar(card) == IF card = <<>> THEN <<>> ELSE <<card[1]>>

\* rank1 = hand[0][:-1]
CardRank(card) == DropLast(card)

\* is_suited = suit1 == suit2
IsSuited(hand) == LastChar(hand[1]) = LastChar(hand[2])

HandGap(hand) ==
    Abs(rank_values(CardRank(hand[1])) - rank_values(CardRank(hand[2])))

HighRank(hand) ==
    Max2(rank_values(CardRank(hand[1])), rank_values(CardRank(hand[2])))

\* is_connected = gap <= 2
IsConnected(hand) == HandGap(hand) <= 2

HandType(hand) ==
    IF HandKnown(hand)
    THEN (IF IsSuited(hand) THEN <<"suited">> ELSE <<"offsuit">>)
    ELSE <<"unknown">>

HandStrength(hand) ==
    IF HandKnown(hand)
    THEN IF HighRank(hand) >= 12 \/ (IsSuited(hand) /\ IsConnected(hand))
         THEN <<"strong">>
         ELSE IF HighRank(hand) >= 9 \/ (IsConnected(hand) /\ HandGap(hand) <= 1)
         THEN <<"medium">>
         ELSE <<"weak">>
    ELSE <<"unknown">>

\* hand_str = ", ".join(hand) if hand[0] != "unknown" else "unknown"
HandStr(hand) == IF hand[1] # unknown THEN Join(hand, <<", ">>) ELSE <<"unknown">>

\* community_str = ", ".join(community) if community else "none"
CommunityStr(community) ==
    IF community # <<>> THEN Join(community, <<", ">>) ELSE <<"none">>

\* suit_counts[suit] after the loop over all_cards
SuitCount(all_cards, s) ==
    Cardinality({i \in 1..Len(all_cards) : LastChar(all_cards[i]) = s})

\* max(suit_counts.values(), default=0)
MaxSuitCount(all_cards) ==
    LET counts == {SuitCount(all_cards, LastChar(all_cards[i])) : i \in 1..Len(all_cards)}
    IN  IF counts = {} THEN 0 ELSE CHOOSE n \in counts : \A m \in counts : m <= n

\* [s for s, count in suit_counts.items() if count == max_suit_count][0]
\* if max_suit_count >= 3 else None; a dict iterates in insertion order, so
\* the first such suit is the one that appears first in all_cards
FlushSuit(all_cards) ==
    LET mx == MaxSuitCount(all_cards)
        first == CHOOSE i \in 1..Len(all_cards) :
                    /\ SuitCount(all_cards, LastChar(all_cards[i])) = mx
                    /\ \A j \in 1..(i - 1) :
                          SuitCount(all_cards, LastChar(all_cards[j])) # mx
    IN  IF mx >= 3 THEN <<LastChar(all_cards[first])>> ELSE <<>>

\* variant: the draw text only from five cards of a suit on
FlushPotentialFromFive(hand, community) ==
    IF community # <<>> /\ HandKnown(hand)
    THEN LET all_cards == hand \o community
             mx == MaxSuitCount(all_cards)
             flush_suit == FlushSuit(all_cards)
             draw == IF flush_suit # <<>> /\ mx > 4
                     THEN <<"flush draw with ">> \o Digits(mx) \o <<" ">>
                            \o flush_suit \o <<" cards">>
                     ELSE <<"none">>
         IN  IF flush_suit # <<>>
                /\ (<<LastChar(hand[1])>> = flush_suit \/ <<LastChar(hand[2])>> = flush_suit)
             THEN <<"you have a ">> \o draw
             ELSE draw
    ELSE <<"none">>

\* the flush branch; <<>> stands for flush_suit = None
FlushPotential(hand, community) ==
    IF community # <<>> /\ HandKnown(hand)
    THEN LET all_cards == hand \o community
             mx == MaxSuitCount(all_cards)
             flush_suit == FlushSuit(all_cards)
             draw == IF flush_suit # <<>> /\ mx >= 4
                     THEN <<"flush draw with ">> \o Digits(mx) \o <<" ">>
                            \o flush_suit \o <<" cards">>
                     ELSE <<"none">>
         IN  IF flush_suit # <<>>
                /\ (<<LastChar(hand[1])>> = flush_suit \/ <<LastChar(hand[2])>> = flush_suit)
             THEN <<"you have a ">> \o draw
             ELSE draw
    ELSE <<"none">>

RECURSIVE FormattedActions(_, _)
\* formatted_actions built by the enumerate loop, i the index of actions[1]
FormattedActions(actions, i) ==
    IF actions = <<>> THEN <<>>
    ELSE (IF actions[1] # <<>>
          THEN <<(<<"Player ">> \o Digits(i) \o <<": ">> \o actions[1])>>
          ELSE <<>>)
         \o FormattedActions(Tail(actions), i + 1)

OpponentActionsStr(actions) ==
    IF actions # <<>> /\ FormattedActions(actions, 0) # <<>>
    THEN Join(FormattedActions(actions, 0), <<"; ">>)
    ELSE <<"None">>

\* The exception build_gto_prompt raises on d, "none" when it returns.
\* is_connected is assigned only inside the HandKnown branch, and the
\* template reads it unconditionally.
BuildExc(d) ==
    IF d.kind # "object" THEN "AttributeError"
    ELSE LET hand == HandOf(d)
             community == CommunityOf(d)
         IN  IF HandKnown(hand) /\ (hand[1] = <<>> \/ hand[2] = <<>>)
             THEN "IndexError"
             ELSE IF HandKnown(hand) /\ community # <<>>
                     /\ \E i \in 1..Len(community) : community[i] = <<>>
             THEN "IndexError"
             ELSE IF ~HandKnown(hand) THEN "UnboundLocalError"
             ELSE "none"

\* the interpolated fields of the returned template
build_gto_prompt(d) ==
    LET hand == HandOf(d)
        community == CommunityOf(d)
    IN  [kind |-> "prompt",
         num_players |-> Format(Get(d.num_players, JNum(2))),
         hand_str |-> HandStr(hand),
         hand_type |-> HandType(hand),
         hand_strength |-> HandStrength(hand),
         connector |-> IF IsConnected(hand) THEN <<"connector">> ELSE <<"non-connector">>,
         community_str |-> CommunityStr(community),
         flush_potential |-> FlushPotential(hand, community),
         stage |-> Format(Get(d.stage, JStr(<<"Unknown">>))),
         position |-> Format(Get(d.position, JStr(<<"SB">>))),
         pot |-> Format(Get(d.pot, JNum(0))),
         chips |-> Format(Get(d.chips, JNum(0))),
         opponent_actions_str |-> OpponentActionsStr(OpponentActionsOf(d)),
         current_bet |-> Format(Get(d.current_bet, JNum(0)))]

(* ---------------- cleaning of the backend text ---------------- *)
IsSpace(c) == c \in {" ", "\n"}

RECURSIVE LStrip(_)
LStrip(s) == IF s # <<>> /\ IsSpace(s[1]) THEN LStrip(Tail(s)) ELSE s

RECURSIVE RStrip(_)
RStrip(s) == IF s # <<>> /\ IsSpace(s[Len(s)]) THEN RStrip(DropLast(s)) ELSE s

\* variant: only the leading whitespace removed
StripLeft(s) == LStrip(s)

\* str.strip()
Strip(s) == RStrip(LStrip(s))

RECURSIVE Replace(_, _)
\* s.replace(tag, ""): every non-overlapping occurrence, scanning left to right
Replace(s, tag) ==
    IF Len(s) < Len(tag) THEN s
    ELSE IF SubSeq(s, 1, Len(tag)) = tag
    THEN Replace(SubSeq(s, Len(tag) + 1, Len(s)), tag)
    ELSE <<s[1]>> \o Replace(Tail(s), tag)

TagThink == <<"/", "t", "h", "i", "n", "k">>
TagEndThink == <<"<", "/", "t", "h", "i", "n", "k", ">">>
TagNoThink == <<"/", "n", "o", "_", "t", "h", "i", "n", "k">>
TagLt == <<"<">>
TagGt == <<">">>

tags_to_remove == <<TagThink, TagEndThink, TagNoThink, TagLt, TagGt>>

RECURSIVE RemoveTags(_, _)
\* for tag in tags: tip = tip.replace(tag, "").strip()
RemoveTags(t, tags) ==
    IF tags = <<>> THEN t
    ELSE RemoveTags(Strip(Replace(t, tags[1])), Tail(tags))

Sanitize(t) == RemoveTags(t, tags_to_remove)

NoTipGenerated ==
    <<"N", "o", " ", "t", "i", "p", " ", "g", "e", "n", "e", "r", "a", "t", "e", "d", ".">>

\* raw_output.get("choices", [{}])
ChoicesOf(raw) == Get(raw.choices, JArr(<<[kind |-> "object", text |-> Absent]>>))

\* the exception line 130 raises on the parsed body, "none" when it does not
ExtractExc(raw) ==
    IF raw.kind # "object" THEN "AttributeError"
    ELSE LET choices == ChoicesOf(raw)
         IN  IF choices.kind # "array" THEN "TypeError"
             ELSE IF choices.items = <<>> THEN "IndexError"
             ELSE IF choices.items[1].kind # "object" THEN "AttributeError"
             ELSE IF Get(choices.items[1].text, JStr(<<>>)).kind # "string"
             THEN "AttributeError"
             ELSE "none"

\* raw_output.get("choices", [{}])[0].get("text", "").strip(), then the
\* substitution of the placeholder for an empty result
ExtractedTip(raw) ==
    LET t == Strip(Get(ChoicesOf(raw).items[1].text, JStr(<<>>)).chars)
    IN  IF t = <<>> THEN NoTipGenerated ELSE t

(* ---------------- the handler gto_tip ---------------- *)
ErrorBody == [tip |-> <<"Error generating tip">>]

ExceptionClasses ==
    {"BadRequest", "AttributeError", "IndexError", "TypeError", "UnboundLocalError",
     "ConnectionError", "HTTPError", "JSONDecodeError"}

\* variant: an except clause for the HTTP client's errors only
CaughtRequestsOnly(e) == e \in {"ConnectionError", "HTTPError"}

\* `except Exception` catches every class above
Caught(e) == e \in ExceptionClasses

\* The handler leaves through the except clause; an exception the clause
\* does not catch reaches the framework, which answers with its error page.
Raise(e) ==
    /\ exc' = e
    /\ pc' = "done"
    /\ response' = IF Caught(e)
                   THEN [status |-> 500, body |-> ErrorBody]
                   ELSE [status |-> 500, body |-> [traceback |-> <<e>>]]

\* data = request.get_json()
GetJson ==
    /\ pc = "get_json"
    /\ request.kind = "json"
    /\ data' = request.data
    /\ pc' = "build"
    /\ UNCHANGED <<request, backend, prompt, raw_output, tip, response, exc>>

GetJsonFails ==
    /\ pc = "get_json"
    /\ request.kind # "json"
    /\ Raise("BadRequest")
    /\ UNCHANGED <<request, backend, data, prompt, raw_output, tip>>

\* prompt = build_gto_prompt(data)
BuildPrompt ==
    /\ pc = "build"
    /\ BuildExc(data) = "none"
    /\ prompt' = build_gto_prompt(data)
    /\ pc' = "post"
    /\ UNCHANGED <<request, backend, data, raw_output, tip, response, exc>>

BuildPromptRaises ==
    /\ pc = "build"
    /\ BuildExc(data) # "none"
    /\ Raise(BuildExc(data))
    /\ UNCHANGED <<request, backend, data, prompt, raw_output, tip>>

\* response = requests.post(...); response.raise_for_status()
PostBackend ==
    /\ pc = "post"
    /\ backend.kind = "http"
    /\ backend.status < 400
    /\ pc' = "json"
    /\ UNCHANGED <<request, backend, data, prompt, raw_output, tip, response, exc>>

PostBackendFails ==
    /\ pc = "post"
    /\ \/ backend.kind = "refused" /\ Raise("ConnectionError")
       \/ backend.kind = "http" /\ backend.status >= 400 /\ Raise("HTTPError")
    /\ UNCHANGED <<request, backend, data, prompt, raw_output, tip>>

\* raw_output = response.json()
ParseJson ==
    /\ pc = "json"
    /\ backend.body.kind # "invalid"
    /\ raw_output' = backend.body
    /\ pc' = "extract"
    /\ UNCHANGED <<request, backend, data, prompt, tip, response, exc>>

ParseJsonFails ==
    /\ pc = "json"
    /\ backend.body.kind = "invalid"
    /\ Raise("JSONDecodeError")
    /\ UNCHANGED <<request, backend, data, prompt, raw_output, tip>>

\* lines 130-132
ExtractTip ==
    /\ pc = "extract"
    /\ ExtractExc(raw_output) = "none"
    /\ tip' = ExtractedTip(raw_output)
    /\ pc' = "clean"
    /\ UNCHANGED <<request, backend, data, prompt, raw_output, response, exc>>

ExtractTipRaises ==
    /\ pc = "extract"
    /\ ExtractExc(raw_output) # "none"
    /\ Raise(ExtractExc(raw_output))
    /\ UNCHANGED <<request, backend, data, prompt, raw_output, tip>>

\* lines 133-137
CleanTip ==
    /\ pc = "clean"
    /\ tip' = Sanitize(tip)
    /\ response' = [status |-> 200, body |-> [gto_tip |-> Sanitize(tip)]]
    /\ pc' = "done"
    /\ UNCHANGED <<request, backend, data, prompt, raw_output, exc>>

(* ---------------- the explored requests and backend behaviours ---------------- *)
RankNames ==
    <<(<<"A">>), (<<"K">>), (<<"Q">>), (<<"J">>), (<<"1", "0">>), (<<"9">>), (<<"8">>),
      (<<"7">>), (<<"6">>), (<<"5">>), (<<"4">>), (<<"3">>), (<<"2">>)>>

Ranks == {RankNames[i] : i \in 1..Len(RankNames)}

Card(rank, suit) == rank \o <<suit>>

HandSuits == {"h", "s"}
BoardSuits == {"h", "c", "d"}

GameState(hand, community) ==
    [kind |-> "object", hand |-> hand, community |-> community,
     opponent_actions |-> Absent, pot |-> Absent, chips |-> Absent,
     stage |-> Absent, position |-> Absent, current_bet |-> Absent,
     num_players |-> Absent]

FoldHere == <<"F", "o", "l", "d", " ", "h", "e", "r", "e", ".">>

Reply(text) ==
    [kind |-> "http", status |-> 200,
     body |-> [kind |-> "object",
               choices |-> JArr(<<[kind |-> "object", text |-> text]>>)]]

GoodBackend == Reply(JStr(FoldHere))

\* every pair of well-formed hole cards, no community cards
HandRequests ==
    {GameState(JArr(<<JStr(Card(r1, s1)), JStr(Card(r2, s2))>>), Absent) :
        r1 \in Ranks, s1 \in HandSuits, r2 \in Ranks, s2 \in HandSuits}

\* boards of 1..MaxCommunity cards, the i-th of the (i+2)-th rank
Boards ==
    UNION {{[i \in 1..n |-> JStr(Card(RankNames[((i + 1) % 13) + 1], f[i]))] :
               f \in [1..n -> BoardSuits]} : n \in 1..MaxCommunity}

FlushRequests ==
    {GameState(JArr(<<JStr(Card(<<"A">>, s1)), JStr(Card(<<"K">>, s2))>>), JArr(b)) :
        s1 \in BoardSuits, s2 \in BoardSuits, b \in Boards}

SampleCards ==
    [i \in 1..(MaxHandLen + 1) |-> JStr(Card(RankNames[((i - 1) % 13) + 1], "h"))]

SampleHands ==
    {Absent, Null, JArr(<<>>), JArr(<<JStr(unknown), JStr(unknown)>>),
     JArr(<<JStr(<<>>), JStr(<<"K", "s">>)>>)}
    \cup {JArr(SubSeq(SampleCards, 1, n)) : n \in 1..MaxHandLen}

SampleCommunities ==
    {Absent, JArr(<<>>),
     JArr(<<JStr(<<"Q", "h">>), JStr(<<"J", "h">>), JStr(<<"2", "c">>)>>)}

SampleActions ==
    JArr(<<JStr(<<"r", "a", "i", "s", "e">>), JStr(<<>>), JStr(<<"c", "a", "l", "l">>)>>)

\* a game state with any subset of its fields absent
DefaultRequests ==
    {[kind |-> "object", hand |-> h, community |-> c,
      opponent_actions |-> IF "opponent_actions" \in S THEN SampleActions ELSE Absent,
      pot |-> IF "pot" \in S THEN JNum(150) ELSE Absent,
      chips |-> IF "chips" \in S THEN JNum(1000) ELSE Absent,
      stage |-> IF "stage" \in S THEN JStr(<<"Flop">>) ELSE Absent,
      position |-> IF "position" \in S THEN JStr(<<"BTN">>) ELSE Absent,
      current_bet |-> IF "current_bet" \in S THEN JNum(20) ELSE Absent,
      num_players |-> IF "num_players" \in S THEN JNum(6) ELSE Absent] :
        h \in SampleHands, c \in SampleCommunities,
        S \in SUBSET {"opponent_actions", "pot", "chips", "stage", "position",
                      "current_bet", "num_players"}}

Pieces ==
    {TagThink, TagEndThink, TagNoThink, TagLt, TagGt, <<" ">>,
     <<"F", "o", "l", "d">>, <<"/">>, <<"n", "o", "_">>, <<"t", "h", "i", "n", "k">>}

RECURSIVE Concat(_)
Concat(ps) == IF ps = <<>> THEN <<>> ELSE ps[1] \o Concat(Tail(ps))

ExampleText == <<" ", " ">> \o TagNoThink \o <<" ">> \o FoldHere \o <<" ">>

\* the texts a backend reply may carry
Texts ==
    {ExampleText}
    \cup UNION {{Concat(ps) : ps \in [1..n -> Pieces]} : n \in 0..MaxPieces}

Bodies ==
    {[kind |-> "invalid"], JArr(<<>>),
     [kind |-> "object", choices |-> Absent],
     [kind |-> "object", choices |-> Null],
     [kind |-> "object", choices |-> JArr(<<>>)],
     [kind |-> "object", choices |-> JArr(<<JStr(FoldHere)>>)],
     [kind |-> "object", choices |-> JArr(<<[kind |-> "object", text |-> Absent]>>)],
     [kind |-> "object", choices |-> JArr(<<[kind |-> "object", text |-> Null]>>)]}
    \cup {Reply(JStr(t)).body : t \in Texts}

Backends ==
    {[kind |-> "refused"]}
    \cup {[kind |-> "http", status |-> st, body |-> GoodBackend.body] : st \in {404, 500}}
    \cup {[kind |-> "http", status |-> 200, body |-> b] : b \in Bodies}

GoodRequest ==
    [kind |-> "json",
     data |-> GameState(JArr(<<JStr(<<"A", "s">>), JStr(<<"K", "s">>)>>), Absent)]

Scenarios ==
    {[request |-> [kind |-> "json", data |-> d], backend |-> GoodBackend] :
        d \in HandRequests \cup FlushRequests \cup DefaultRequests}
    \cup {[request |-> GoodRequest, backend |-> b] : b \in Backends}
    \cup {[request |-> r, backend |-> b] :
            r \in {[kind |-> "bad"], [kind |-> "json", data |-> Null]},
            b \in {GoodBackend, [kind |-> "refused"]}}

Init ==
    /\ \E sc \in Scenarios :
          /\ request = sc.request
          /\ backend = sc.backend
    /\ pc = "get_json"
    /\ data = None
    /\ prompt = None
    /\ raw_output = None
    /\ tip = <<>>
    /\ response = None
    /\ exc = "none"

Next ==
    \/ GetJson
    \/ GetJsonFails
    \/ BuildPrompt
    \/ BuildPromptRaises
    \/ PostBackend
    \/ PostBackendFails
    \/ ParseJson
    \/ ParseJsonFails
    \/ ExtractTip
    \/ ExtractTipRaises
    \/ CleanTip

Spec == Init /\ [][Next]_vars

(* ---------------- properties ---------------- *)
Built == prompt.kind = "prompt"

PastBuild == pc \notin {"get_json", "build"}

Ok200 == pc = "done" /\ response.status = 200

\* the cards of a JSON array of strings, none of them empty
CardArray(v, lo, hi) ==
    /\ v.kind = "array"
    /\ Len(v.items) >= lo
    /\ Len(v.items) <= hi
    /\ \A i \in 1..Len(v.items) : v.items[i].kind = "string" /\ v.items[i].chars # <<>>

\* two hole cards, the first of them not the sentinel
KnownHoleCards(d) ==
    /\ d.kind = "object"
    /\ CardArray(d.hand, 2, 2)
    /\ d.hand.items[1].chars # unknown

\* suits of hole plus community cards, counted without the code's dictionary
SuitsOf(d) ==
    [i \in 1..(2 + Len(d.community.items)) |->
        LET c == IF i <= 2 THEN d.hand.items[i].chars ELSE d.community.items[i - 2].chars
        IN  c[Len(c)]]

Occurs(d, s) == Cardinality({i \in DOMAIN SuitsOf(d) : SuitsOf(d)[i] = s})

TopCount(d) ==
    CHOOSE n \in 0..(2 + Len(d.community.items)) :
        /\ \A i \in DOMAIN SuitsOf(d) : Occurs(d, SuitsOf(d)[i]) <= n
        /\ \E i \in DOMAIN SuitsOf(d) : Occurs(d, SuitsOf(d)[i]) = n

HoleSuits(d) == {SuitsOf(d)[1], SuitsOf(d)[2]}

Contains(t, tag) ==
    \E i \in 1..(Len(t) - Len(tag) + 1) : SubSeq(t, i, i + Len(tag) - 1) = tag

HasNoTag(t) == \A k \in DOMAIN tags_to_remove : ~Contains(t, tags_to_remove[k])

\* r is t without its leading and trailing whitespace
TrimmedOf(t, r) ==
    \E i \in 1..(Len(t) + 1), j \in 0..Len(t) :
        /\ r = SubSeq(t, i, j)
        /\ \A k \in 1..(i - 1) : t[k] \in {" ", "\n"}
        /\ \A k \in (j + 1)..Len(t) : t[k] \in {" ", "\n"}
        /\ r # <<>> => (r[1] \notin {" ", "\n"} /\ r[Len(r)] \notin {" ", "\n"})

\* the backend answered 2xx with a JSON object whose first choice carries a string
HasText ==
    /\ raw_output.kind = "object"
    /\ raw_output.choices.kind = "array"
    /\ raw_output.choices.items # <<>>
    /\ raw_output.choices.items[1].kind = "object"
    /\ raw_output.choices.items[1].text.kind = "string"

RawText == raw_output.choices.items[1].text.chars

\* a Python string: a finite sequence of chunks
IsString(t) ==
    /\ DOMAIN t = 1..Len(t)
    /\ \A i \in DOMAIN t : t[i] \in STRING

\* C1: every request ends with status 200 and a body whose only key is
\* gto_tip holding a string, or with status 500 and the body
\* {"tip": "Error generating tip"}; every failing step ends in the latter.
C1_TwoOutcomes ==
    pc = "done" =>
        \/ /\ exc = "none"
           /\ response.status = 200
           /\ DOMAIN response.body = {"gto_tip"}
           /\ IsString(response.body.gto_tip)
        \/ /\ exc # "none"
           /\ response.status = 500
           /\ response.body = [tip |-> <<"Error generating tip">>]

C1_Witness ==
    /\ pc = "done"
    /\ exc = "IndexError"
    /\ raw_output.kind = "object"
    /\ response = [status |-> 500, body |-> [tip |-> <<"Error generating tip">>]]

\* C2: build_gto_prompt returns a prompt for every game state whose fields
\* are absent or empty in any combination and whose hand list has any
\* length, with the defaults in place of the absent fields.
C2_BuildPromptTotal ==
    (/\ PastBuild
     /\ data.kind = "object"
     /\ data.hand.kind = "array" => CardArray(data.hand, 0, MaxHandLen + 1)
     /\ data.community.kind = "array" => CardArray(data.community, 0, MaxCommunity + 1))
    => /\ Built
       /\ data.pot = Absent => prompt.pot = <<"0">>
       /\ data.chips = Absent => prompt.chips = <<"0">>
       /\ data.current_bet = Absent => prompt.current_bet = <<"0">>
       /\ data.stage = Absent => prompt.stage = <<"Unknown">>
       /\ data.position = Absent => prompt.position = <<"SB">>
       /\ data.num_players = Absent => prompt.num_players = <<"2">>
       /\ data.community \in {Absent, JArr(<<>>)} => prompt.community_str = <<"none">>
       /\ data.opponent_actions \in {Absent, JArr(<<>>)}
             => prompt.opponent_actions_str = <<"None">>

\* C3: a game state whose hand is the sentinel pair yields a prompt with
\* "Your hand: unknown", type and strength "unknown" and flush text "none".
C3_UnknownHand ==
    (/\ PastBuild
     /\ data.kind = "object"
     /\ data.hand = JArr(<<JStr(unknown), JStr(unknown)>>))
    => /\ Built
       /\ prompt.hand_str = <<"unknown">>
       /\ prompt.hand_type = <<"unknown">>
       /\ prompt.hand_strength = <<"unknown">>
       /\ prompt.flush_potential = <<"none">>

\* C4: with known hole cards and 1 to 5 community cards of which no suit
\* occurs more than 3 times among hole plus community cards, the flush
\* text is exactly "none".
C4_NoFlushTextBelowFour ==
    (/\ PastBuild
     /\ KnownHoleCards(data)
     /\ CardArray(data.community, 1, 5)
     /\ TopCount(data) <= 3)
    => /\ Built
       /\ prompt.flush_potential = <<"none">>

\* C5: with known hole cards and a non-empty community in which the most
\* frequent suit s occurs n >= 4 times, the flush text is "flush draw with
\* n s cards", preceded by "you have a " exactly when a hole card has suit s.
C5_FlushDrawText ==
    (/\ PastBuild
     /\ KnownHoleCards(data)
     /\ CardArray(data.community, 1, MaxCommunity + 1)
     /\ TopCount(data) >= 4)
    => /\ Built
       /\ \E i \in DOMAIN SuitsOf(data) :
             LET s == SuitsOf(data)[i]
                 draw == <<"flush draw with ", DigitChar[TopCount(data) + 1], " ", s, " cards">>
             IN  /\ Occurs(data, s) = TopCount(data)
                 /\ prompt.flush_potential =
                       IF s \in HoleSuits(data) THEN <<"you have a ">> \o draw ELSE draw

C5_Witness ==
    /\ Built
    /\ KnownHoleCards(data)
    /\ CardArray(data.community, 1, MaxCommunity + 1)
    /\ TopCount(data) = 4
    /\ SuitsOf(data)[1] = "h"
    /\ SuitsOf(data)[2] = "c"
    /\ prompt.flush_potential = <<"flush draw with ", "4", " ", "d", " cards">>

\* the position in RankNames of the rank of a well-formed card, 0 if none
RankIndex(c) ==
    IF \E i \in DOMAIN RankNames : c = RankNames[i] \o <<c[Len(c)]>>
    THEN CHOOSE i \in DOMAIN RankNames : c = RankNames[i] \o <<c[Len(c)]>>
    ELSE 0

\* C6: for two hole cards with ranks in 2..10, J, Q, K, A the type is
\* "suited" exactly when the suits are equal, and the strength is "strong"
\* when highRank >= 12 or (suited and gap <= 2), else "medium" when
\* highRank >= 9 or gap <= 1, else "weak" (A = 14).
C6_HandLabels ==
    (/\ PastBuild
     /\ KnownHoleCards(data)
     /\ RankIndex(data.hand.items[1].chars) # 0
     /\ RankIndex(data.hand.items[2].chars) # 0)
    => LET c1 == data.hand.items[1].chars
           c2 == data.hand.items[2].chars
           v1 == 15 - RankIndex(c1)
           v2 == 15 - RankIndex(c2)
           high == IF v1 >= v2 THEN v1 ELSE v2
           gap == IF v1 >= v2 THEN v1 - v2 ELSE v2 - v1
           suited == c1[Len(c1)] = c2[Len(c2)]
       IN  /\ Built
           /\ prompt.hand_type = <<"suited">> <=> suited
           /\ prompt.hand_type \in {<<"suited">>, <<"offsuit">>}
           /\ prompt.hand_strength =
                 IF high >= 12 \/ (suited /\ gap <= 2) THEN <<"strong">>
                 ELSE IF high >= 9 \/ gap <= 1 THEN <<"medium">>
                 ELSE <<"weak">>

C6_Witness ==
    /\ Built
    /\ data.hand = JArr(<<JStr(<<"1", "0", "h">>), JStr(<<"8", "s">>)>>)
    /\ prompt.hand_type = <<"offsuit">>
    /\ prompt.hand_strength = <<"medium">>

\* C7: a 2xx reply whose JSON object has no choices array, an empty choices
\* array, or a first choice without a text field ends with status 200 and
\* gto_tip "No tip generated.".
C7_MissingTextTolerated ==
    (/\ pc = "done"
     /\ raw_output.kind = "object"
     /\ \/ raw_output.choices = Absent
        \/ raw_output.choices = JArr(<<>>)
        \/ /\ raw_output.choices.kind = "array"
           /\ raw_output.choices.items # <<>>
           /\ raw_output.choices.items[1].kind = "object"
           /\ raw_output.choices.items[1].text = Absent)
    => /\ response.status = 200
       /\ response.body = [gto_tip |-> NoTipGenerated]

\* C8: a backend text that contains none of the five literals comes out
\* unchanged apart from its surrounding whitespace (the placeholder when
\* nothing is left), cleaning the result again gives the same text, and
\* the text "  /no_think Fold here. " comes out as "Fold here.".
C8_CleanTextFixpoint ==
    (Ok200 /\ HasText)
    => /\ HasNoTag(RawText) =>
             /\ \/ TrimmedOf(RawText, response.body.gto_tip) /\ response.body.gto_tip # <<>>
                \/ TrimmedOf(RawText, <<>>) /\ response.body.gto_tip = NoTipGenerated
             /\ Sanitize(response.body.gto_tip) = response.body.gto_tip
       /\ RawText = ExampleText => response.body.gto_tip = FoldHere

C8_Witness ==
    /\ Ok200
    /\ HasText
    /\ RawText = <<" ", "F", "o", "l", "d", " ">>
    /\ response.body.gto_tip = <<"F", "o", "l", "d">>

\* C9: the gto_tip of a 200 response contains none of /think, </think>,
\* /no_think, <, >.
C9_NoTagRemains == Ok200 => HasNoTag(response.body.gto_tip)

\* C10: the gto_tip of a 200 response is never the empty string.
C10_TipNeverEmpty == Ok200 => response.body.gto_tip # <<>>

====
